---- MODULE Spec2Model ----
(***************************************************************************)
(* Model of NPapp.py, the frequency-volume-chart analysis tool.            *)
(*                                                                         *)
(* Strings the program inspects character by character (time strings,    *)
(* activity texts, OCR text) are sequences of one-character strings.       *)
(* Volumes are integers (ml).  The float results npi, ni, pnv and nbci are *)
(* doubles, computed with the rounding of the machine.  max_voided_volume  *)
(* is [nan, v]: pandas' max of an empty column is NaN, and every           *)
(* comparison with NaN is false.  body_weight is in tenths of a kilogram   *)
(* (the input's step is 0.1).                                              *)
(***************************************************************************)
EXTENDS Integers, Sequences, FiniteSets, TLC

VARIABLES
    log,          \* edited_data: the rows of the table the script has, in order
    data,         \* the frame the editor was built from (upload or demo table)
    user_age,     \* sidebar number_input
    bed_time,     \* selectbox over the 96 slots
    body_weight,  \* number_input, tenths of a kg
    pc,           \* "editing" | "analyzed" (submit_button of this run)
    call,         \* the arguments handed to calculate_metrics
    metrics,      \* the dict calculate_metrics returned
    band,         \* which NBCI message main shows
    report,       \* the other values main derives and shows
    time_str,     \* argument of a direct parse_time_to_minutes call
    parsed,       \* its outcome
    activity_text,\* argument of a direct normalize_activity call
    normalized,   \* its outcome
    ocr_text      \* the text pytesseract read from an uploaded image

vars == <<log, data, user_age, bed_time, body_weight, pc, call, metrics, band,
          report, time_str, parsed, activity_text, normalized, ocr_text>>

\* the inputs and outcomes of the direct calls of the text helpers
text_vars == <<activity_text, normalized, ocr_text>>

(***************************************************************************)
(* Bounds of the model.                                                    *)
(***************************************************************************)
MaxRows == 3          \* rows the user may add to the table
MaxOcrLines == 1      \* lines of an uploaded OCR text
MaxTimes == 5         \* rows of the table in the void-interval runs
MaxLen == 5           \* length of a string given to parse_time_to_minutes
MaxAge == 70          \* ages given to calculate_metrics
MaxCount == 3         \* actual_night_urinations given to calculate_metrics
MaxFrags == 3         \* fragments of a text given to normalize_activity
MaxLines == 3         \* lines of the text of an uploaded image

(***************************************************************************)
(* Characters and Python's int().                                          *)
(***************************************************************************)
Digits == <<"0", "1", "2", "3", "4", "5", "6", "7", "8", "9">>

IsDigit(c) == \E d \in 1..10 : Digits[d] = c

DigitVal(c) == (CHOOSE d \in 1..10 : Digits[d] = c) - 1

\* white space for str.strip() and the pattern's \s: the ASCII
\* characters str.isspace() holds, that is blank, \t, \n, \r, \f, \v and the
\* separators \x1c..\x1f (the last five written as the characters
\* themselves).  The white space beyond ASCII (\x85, \xa0, the Unicode
\* spaces) is outside the alphabet of the model.
WhiteSpace ==
    {" ", "\t", "\n", "\r", "\f", "", "", "", "", ""}

IsSpace(c) == c \in WhiteSpace

\* str.strip(): leading and trailing white space removed
RECURSIVE LStrip(_)
LStrip(s) == IF s # <<>> /\ IsSpace(Head(s)) THEN LStrip(Tail(s)) ELSE s

RECURSIVE RStrip(_)
RStrip(s) ==
    IF s # <<>> /\ IsSpace(s[Len(s)]) THEN RStrip(SubSeq(s, 1, Len(s) - 1)) ELSE s

Strip(s) == RStrip(LStrip(s))

RECURSIVE DigitsValue(_)
DigitsValue(s) ==
    IF s = <<>> THEN 0
    ELSE 10 * DigitsValue(SubSeq(s, 1, Len(s) - 1)) + DigitVal(s[Len(s)])

\* white space for int(): what int() skips around the literal of an ASCII
\* string is blank, \t, \n, \r, \f and \v, without the separators
\* \x1c..\x1f
IntWhiteSpace == {" ", "\t", "\n", "\r", "\f", ""}

RECURSIVE IntLStrip(_)
IntLStrip(s) ==
    IF s # <<>> /\ Head(s) \in IntWhiteSpace THEN IntLStrip(Tail(s)) ELSE s

RECURSIVE IntRStrip(_)
IntRStrip(s) ==
    IF s # <<>> /\ s[Len(s)] \in IntWhiteSpace
    THEN IntRStrip(SubSeq(s, 1, Len(s) - 1))
    ELSE s

\* the digits of an int() literal: underscores may separate digits, one at a
\* time
DropUnderscores(s) == SelectSeq(s, LAMBDA c : c # "_")

IsIntBody(s) ==
    /\ s # <<>>
    /\ IsDigit(s[1]) /\ IsDigit(s[Len(s)])
    /\ \A i \in 1..Len(s) : IsDigit(s[i]) \/ s[i] = "_"
    /\ \A i \in 1..(Len(s) - 1) : ~(s[i] = "_" /\ s[i + 1] = "_")

\* int(s): white space around, an optional sign, then the digits; anything
\* else raises ValueError (ok = FALSE).
PyInt(s) ==
    LET t == IntRStrip(IntLStrip(s))
        signed == t # <<>> /\ Head(t) \in {"+", "-"}
        body == IF signed THEN Tail(t) ELSE t
    IN  IF ~IsIntBody(body) THEN [ok |-> FALSE, v |-> 0]
        ELSE [ok |-> TRUE,
              v |-> IF signed /\ Head(t) = "-"
                    THEN 0 - DigitsValue(DropUnderscores(body))
                    ELSE DigitsValue(DropUnderscores(body))]

\* str.split(':')
RECURSIVE SplitColon(_)
SplitColon(s) ==
    IF \A i \in 1..Len(s) : s[i] # ":" THEN <<s>>
    ELSE LET k == CHOOSE i \in 1..Len(s) :
                      s[i] = ":" /\ \A j \in 1..(i - 1) : s[j] # ":"
         IN  <<SubSeq(s, 1, k - 1)>> \o SplitColon(SubSeq(s, k + 1, Len(s)))

ParseFailed == [ok |-> FALSE, v |-> 0]

\* hh, mm = time_str.split(':'); return int(hh) * 60 + int(mm)
\* ok = FALSE stands for the ValueError of the unpacking or of int().
parse_time_to_minutes(s) ==
    LET parts == SplitColon(s)
    IN  IF Len(parts) # 2 THEN ParseFailed
        ELSE LET hh == PyInt(parts[1])
                 mm == PyInt(parts[2])
             IN  IF ~hh.ok \/ ~mm.ok THEN ParseFailed
                 ELSE [ok |-> TRUE, v |-> hh.v * 60 + mm.v]

(***************************************************************************)
(* Numbers.  max_voided_volume is [nan, v].  npi, ni, pnv and nbci are     *)
(* Python floats, IEEE 754 doubles: [zde, neg, mag, exp] stands for        *)
(* (-1)^neg * mag * 2^exp, where mag is a natural number of exactly        *)
(* MantissaBits bits (or zero), written as its digits in base LimbBase,    *)
(* lowest first.  zde marks the ZeroDivisionError of a division whose      *)
(* guard let a zero through.  Every operation rounds its exact result to   *)
(* the nearest double, ties to even.  Volumes stay below 2^21 ml and no    *)
(* result leaves the range of the normal doubles.                          *)
(***************************************************************************)
NaN == [nan |-> TRUE, v |-> 0]

Num(v) == [nan |-> FALSE, v |-> v]

LimbBits == 10

LimbBase == 2 ^ LimbBits

MantissaBits == 53

\* digits the long division of FloatDiv works out behind the point
FracLimbs == 8

Abs(k) == IF k < 0 THEN 0 - k ELSE k

Limb(p, i) == IF i \in 1..Len(p) THEN p[i] ELSE 0

RECURSIVE BigTrim(_)
BigTrim(p) ==
    IF p # <<>> /\ p[Len(p)] = 0 THEN BigTrim(SubSeq(p, 1, Len(p) - 1)) ELSE p

RECURSIVE BigOfNat(_)
BigOfNat(n) ==
    IF n = 0 THEN <<>> ELSE <<n % LimbBase>> \o BigOfNat(n \div LimbBase)

\* -1, 0, 1 as p < q, p = q, p > q
BigCmp(p, q) ==
    IF Len(p) # Len(q) THEN (IF Len(p) > Len(q) THEN 1 ELSE 0 - 1)
    ELSE IF p = q THEN 0
    ELSE LET k == CHOOSE i \in 1..Len(p) :
                      p[i] # q[i] /\ \A j \in (i + 1)..Len(p) : p[j] = q[j]
         IN  IF p[k] > q[k] THEN 1 ELSE 0 - 1

RECURSIVE AddCarry(_, _, _, _)
AddCarry(p, q, i, c) ==
    IF i > Len(p) /\ i > Len(q) THEN (IF c = 0 THEN <<>> ELSE <<c>>)
    ELSE LET s == Limb(p, i) + Limb(q, i) + c
         IN  <<s % LimbBase>> \o AddCarry(p, q, i + 1, s \div LimbBase)

BigAdd(p, q) == AddCarry(p, q, 1, 0)

RECURSIVE SubBorrow(_, _, _, _)
SubBorrow(p, q, i, b) ==
    IF i > Len(p) THEN <<>>
    ELSE LET d == p[i] - Limb(q, i) - b
         IN  <<(d + LimbBase) % LimbBase>>
                 \o SubBorrow(p, q, i + 1, IF d < 0 THEN 1 ELSE 0)

\* p - q for p >= q
BigSub(p, q) == BigTrim(SubBorrow(p, q, 1, 0))

RECURSIVE MulCarry(_, _, _, _)
MulCarry(p, k, i, c) ==
    IF i > Len(p) THEN BigOfNat(c)
    ELSE LET s == p[i] * k + c
         IN  <<s % LimbBase>> \o MulCarry(p, k, i + 1, s \div LimbBase)

BigMulSmall(p, k) == BigTrim(MulCarry(p, k, 1, 0))

\* p * 2^s
BigShl(p, s) ==
    IF p = <<>> THEN <<>>
    ELSE [i \in 1..(s \div LimbBits) |-> 0] \o BigMulSmall(p, 2 ^ (s % LimbBits))

\* p \div 2^s
BigShr(p, s) ==
    LET d == SubSeq(p, (s \div LimbBits) + 1, Len(p))
        r == s % LimbBits
    IN  BigTrim([i \in 1..Len(d) |->
                    (d[i] \div 2 ^ r) + (Limb(d, i + 1) % 2 ^ r) * 2 ^ (LimbBits - r)])

\* bit i of p, the lowest being bit 0
BigBit(p, i) == (Limb(p, (i \div LimbBits) + 1) \div 2 ^ (i % LimbBits)) % 2

\* some bit of p below bit i is set
BigLowBits(p, i) ==
    \E j \in 1..Len(p) :
        \/ j <= i \div LimbBits /\ p[j] # 0
        \/ j = (i \div LimbBits) + 1 /\ p[j] % 2 ^ (i % LimbBits) # 0

BigBitLen(p) ==
    IF p = <<>> THEN 0
    ELSE LimbBits * (Len(p) - 1)
             + (CHOOSE k \in 1..LimbBits :
                    2 ^ (k - 1) <= p[Len(p)] /\ p[Len(p)] < 2 ^ k)

FloatZero == [zde |-> FALSE, neg |-> FALSE, mag |-> <<>>, exp |-> 0]

ZeroDivision == [zde |-> TRUE, neg |-> FALSE, mag |-> <<>>, exp |-> 0]

\* the double nearest to (-1)^neg * (p + t) * 2^e, where 0 < t < 1 when
\* sticky and t = 0 otherwise; ties go to the even mantissa
RoundToDouble(neg, p, e, sticky) ==
    LET len == BigBitLen(p)
        s == len - MantissaBits
    IN  IF p = <<>> THEN FloatZero
        ELSE IF s <= 0
        THEN [zde |-> FALSE, neg |-> neg, mag |-> BigShl(p, 0 - s), exp |-> e + s]
        ELSE LET q == BigShr(p, s)
                 half == BigBit(p, s - 1) = 1
                 rest == sticky \/ BigLowBits(p, s - 1)
                 up == half /\ (rest \/ BigBit(q, 0) = 1)
                 m == IF up THEN BigAdd(q, <<1>>) ELSE q
             IN  IF BigBitLen(m) > MantissaBits
                 THEN [zde |-> FALSE, neg |-> neg, mag |-> BigShr(m, 1),
                       exp |-> e + s + 1]
                 ELSE [zde |-> FALSE, neg |-> neg, mag |-> m, exp |-> e + s]

\* float(k)
FloatOfInt(k) == RoundToDouble(k < 0, BigOfNat(Abs(k)), 0, FALSE)

\* n digits of r / d behind the point, lowest first, and what is left of r
RECURSIVE DivLimbs(_, _, _)
DivLimbs(r, d, n) ==
    IF n = 0 THEN [limbs |-> <<>>, rem |-> r]
    ELSE LET rest == DivLimbs((r * LimbBase) % d, d, n - 1)
         IN  [limbs |-> rest.limbs \o <<(r * LimbBase) \div d>>, rem |-> rest.rem]

\* a / b for two integers
FloatDiv(a, b) ==
    IF b = 0 THEN ZeroDivision
    ELSE LET frac == DivLimbs(Abs(a) % Abs(b), Abs(b), FracLimbs)
         IN  RoundToDouble((a < 0) # (b < 0),
                           BigTrim(frac.limbs \o BigOfNat(Abs(a) \div Abs(b))),
                           0 - LimbBits * FracLimbs, frac.rem # 0)

\* x * k for an integer k
FloatTimesInt(x, k) ==
    IF x.zde THEN x
    ELSE RoundToDouble(x.neg # (k < 0), BigMulSmall(x.mag, Abs(k)), x.exp, FALSE)

\* x + y
FloatAdd(x, y) ==
    IF x.zde \/ y.zde THEN ZeroDivision
    ELSE IF x.mag = <<>> THEN y
    ELSE IF y.mag = <<>> THEN x
    ELSE LET e == IF x.exp < y.exp THEN x.exp ELSE y.exp
             p == BigShl(x.mag, x.exp - e)
             q == BigShl(y.mag, y.exp - e)
         IN  IF x.neg = y.neg THEN RoundToDouble(x.neg, BigAdd(p, q), e, FALSE)
             ELSE IF BigCmp(p, q) >= 0
             THEN RoundToDouble(x.neg, BigSub(p, q), e, FALSE)
             ELSE RoundToDouble(y.neg, BigSub(q, p), e, FALSE)

\* x - y
FloatMinus(x, y) ==
    FloatAdd(x, IF y.mag = <<>> THEN y ELSE [y EXCEPT !.neg = ~y.neg])

\* -1, 0, 1 as x < y, x = y, x > y
FloatCmp(x, y) ==
    LET sx == IF x.mag = <<>> THEN 0 ELSE IF x.neg THEN 0 - 1 ELSE 1
        sy == IF y.mag = <<>> THEN 0 ELSE IF y.neg THEN 0 - 1 ELSE 1
        m == IF x.exp # y.exp THEN (IF x.exp > y.exp THEN 1 ELSE 0 - 1)
             ELSE BigCmp(x.mag, y.mag)
    IN  IF sx # sy THEN (IF sx > sy THEN 1 ELSE 0 - 1)
        ELSE IF sx = 0 THEN 0
        ELSE sx * m

FloatGt(x, y) == FloatCmp(x, y) = 1

FloatLe(x, y) == FloatCmp(x, y) <= 0

(***************************************************************************)
(* calculate_metrics, statement by statement.                              *)
(***************************************************************************)
\* total_urine_flag = total_urine_volume > 40 * 1000
MutUrineFlagInclusive(total_urine_volume) == total_urine_volume >= 40 * 1000

TotalUrineFlag(total_urine_volume) == total_urine_volume > 40 * 1000

\* if total_urine_volume > 0: npi = (nocturnal / total) * 100  else: npi = 0
MutNpiUnguarded(total_urine_volume, nocturnal_urine_volume) ==
    FloatTimesInt(FloatDiv(nocturnal_urine_volume, total_urine_volume), 100)

Npi(total_urine_volume, nocturnal_urine_volume) ==
    IF total_urine_volume > 0
    THEN FloatTimesInt(FloatDiv(nocturnal_urine_volume, total_urine_volume), 100)
    ELSE FloatOfInt(0)

\* if 40 <= user_age <= 65: flag = npi > 20  else: flag = npi > 33
MutFlagAgeStrict(npi, age) ==
    IF 40 < age /\ age < 65 THEN FloatGt(npi, FloatOfInt(20))
    ELSE FloatGt(npi, FloatOfInt(33))

NocturnalPolyuriaFlag(npi, age) ==
    IF 40 <= age /\ age <= 65 THEN FloatGt(npi, FloatOfInt(20))
    ELSE FloatGt(npi, FloatOfInt(33))

\* diminished_bladder_capacity_flag = (max_voided_volume < 200)
DiminishedBladderCapacityFlag(max_voided_volume) ==
    ~max_voided_volume.nan /\ max_voided_volume.v < 200

\* if max_voided_volume > 0: ni = nocturnal / max  else: ni = 0
Ni(nocturnal_urine_volume, max_voided_volume) ==
    IF ~max_voided_volume.nan /\ max_voided_volume.v > 0
    THEN FloatDiv(nocturnal_urine_volume, max_voided_volume.v)
    ELSE FloatOfInt(0)

\* pnv = (ni - 1) if ni > 1 else 0
MutPnvUnguarded(ni) == FloatMinus(ni, FloatOfInt(1))

Pnv(ni) ==
    IF FloatGt(ni, FloatOfInt(1)) THEN FloatMinus(ni, FloatOfInt(1))
    ELSE FloatOfInt(0)

\* nbci = actual_night_urinations - pnv
MutNbciSwapped(actual_night_urinations, pnv) ==
    FloatMinus(pnv, FloatOfInt(actual_night_urinations))

Nbci(actual_night_urinations, pnv) ==
    FloatMinus(FloatOfInt(actual_night_urinations), pnv)

NoMetrics ==
    [raised |-> FALSE, total_urine_flag |-> FALSE, npi |-> FloatOfInt(0),
     nocturnal_polyuria_flag |-> FALSE,
     diminished_bladder_capacity_flag |-> FALSE, ni |-> FloatOfInt(0),
     pnv |-> FloatOfInt(0), nbci |-> FloatOfInt(0)]

calculate_metrics(total_urine_volume, nocturnal_urine_volume, max_voided_volume, actual_night_urinations, age) ==
    LET npi == Npi(total_urine_volume, nocturnal_urine_volume)
        ni == Ni(nocturnal_urine_volume, max_voided_volume)
    IN  IF npi.zde \/ ni.zde
        THEN [NoMetrics EXCEPT !.raised = TRUE]
        ELSE LET pnv == Pnv(ni)
             IN  [raised |-> FALSE,
                  total_urine_flag |-> TotalUrineFlag(total_urine_volume),
                  npi |-> npi,
                  nocturnal_polyuria_flag |->
                      NocturnalPolyuriaFlag(npi, age),
                  diminished_bladder_capacity_flag |->
                      DiminishedBladderCapacityFlag(max_voided_volume),
                  ni |-> ni,
                  pnv |-> pnv,
                  nbci |-> Nbci(actual_night_urinations, pnv)]

\* the literal 1.3 of main
Float13 == FloatDiv(13, 10)

\* main's if / elif chain over metrics["nbci"]: which message is shown
MutBandInclusive(nbci) ==
    IF FloatCmp(nbci, FloatOfInt(2)) >= 0 THEN "severe nocturia"
    ELSE IF FloatGt(nbci, Float13)
    THEN "diminished nocturnal bladder capacity"
    ELSE IF FloatGt(nbci, FloatOfInt(0)) THEN "nocturia suspected"
    ELSE "no abnormality"

NbciBand(nbci) ==
    IF FloatGt(nbci, FloatOfInt(2)) THEN "severe nocturia"
    ELSE IF FloatGt(nbci, Float13)
    THEN "diminished nocturnal bladder capacity"
    ELSE IF FloatGt(nbci, FloatOfInt(0)) THEN "nocturia suspected"
    ELSE "no abnormality"

(***************************************************************************)
(* The table: rows [activity, time, intake, output, leak].                 *)
(***************************************************************************)
T0000 == <<"0", "0", ":", "0", "0">>
T0200 == <<"0", "2", ":", "0", "0">>
T0600 == <<"0", "6", ":", "0", "0">>
T0800 == <<"0", "8", ":", "0", "0">>
T1200 == <<"1", "2", ":", "0", "0">>
T1800 == <<"1", "8", ":", "0", "0">>
T2200 == <<"2", "2", ":", "0", "0">>
T1875 == <<"1", "8", ":", "7", "5">>   \* OCR text the row pattern accepts
StrNone == <<"N", "o", "n", "e">>

Row(a, t, i, o, l) ==
    [activity |-> a, time |-> t, intake |-> i, output |-> o, leak |-> l]

\* the table the form starts with
DemoLog ==
    << Row("First Morning Void", T0600, 0, 150, "N"),
       Row("Daytime Void", T0800, 250, 200, "N"),
       Row("Daytime Void", T1200, 300, 250, "N"),
       Row("Daytime Void", T1800, 400, 300, "N"),
       Row("Bedtime Void", T2200, 200, 100, "N"),
       Row("Nighttime Void", T0200, 0, 150, "Y") >>

\* the row extract_table_from_image makes of a line the pattern rejects
PlaceholderRow == Row("Unknown Activity", StrNone, 0, 0, "None")

(***************************************************************************)
(* main, after the Analyze button: the aggregates.                         *)
(***************************************************************************)
RECURSIVE SumIntake(_)
SumIntake(rows) ==
    IF rows = <<>> THEN 0 ELSE Head(rows).intake + SumIntake(Tail(rows))

RECURSIVE SumOutput(_)
SumOutput(rows) ==
    IF rows = <<>> THEN 0 ELSE Head(rows).output + SumOutput(Tail(rows))

\* calc_data[calc_data[Activity] == a]
WithActivity(rows, a) == SelectSeq(rows, LAMBDA r : r.activity = a)

TotalIntake(rows) == SumIntake(rows)

TotalOutput(rows) == SumOutput(rows)

\* the Nighttime Void sum, then += the First Morning Void sum
MutNocturnalTwice(rows) ==
    SumOutput(WithActivity(rows, "Nighttime Void"))
        + SumOutput(WithActivity(rows, "First Morning Void"))
        + SumOutput(WithActivity(rows, "First Morning Void"))

MutNocturnalNightOnly(rows) == SumOutput(WithActivity(rows, "Nighttime Void"))

NocturnalOutput(rows) ==
    SumOutput(WithActivity(rows, "Nighttime Void"))
        + SumOutput(WithActivity(rows, "First Morning Void"))

\* Series.max(): NaN for a column with no rows
MaxVoidedVolume(rows) ==
    IF rows = <<>> THEN NaN
    ELSE Num(CHOOSE m \in {rows[i].output : i \in 1..Len(rows)} :
                 \A i \in 1..Len(rows) : rows[i].output <= m)

MutNightCountWithMorning(rows) ==
    Len(WithActivity(rows, "Nighttime Void"))
        + Len(WithActivity(rows, "First Morning Void"))

NocturnalUrinations(rows) == Len(WithActivity(rows, "Nighttime Void"))

(***************************************************************************)
(* main: intake in the 4 hours before bedtime.                             *)
(***************************************************************************)
Cutoff(bed_time_mins) ==
    IF bed_time_mins - 240 < 0 THEN bed_time_mins - 240 + 1440
    ELSE bed_time_mins - 240

Found4hrIntake(rows, bed, nocturnal_polyuria_flag) ==
    /\ nocturnal_polyuria_flag
    /\ LET bed_time_mins == parse_time_to_minutes(bed).v
           cutoff == Cutoff(bed_time_mins)
       IN  \E i \in 1..Len(rows) :
               /\ rows[i].intake > 0
               /\ LET t == parse_time_to_minutes(rows[i].time)
                  IN  /\ t.ok
                      /\ IF cutoff < bed_time_mins
                         THEN cutoff <= t.v /\ t.v < bed_time_mins
                         ELSE t.v >= cutoff \/ t.v < bed_time_mins

(***************************************************************************)
(* main: leaks, proper urine output, void intervals.                       *)
(***************************************************************************)
NumLeaks(rows) == Len(SelectSeq(rows, LAMBDA r : r.leak = "Y"))

\* body_weight * 0.5 * 24, in tenths of a ml (body_weight is in tenths of a kg)
ProperUrineOutput10(weight) == weight * 12

BelowProperOutput(total_output, weight) ==
    total_output * 10 < ProperUrineOutput10(weight)

\* the minutes of the rows whose time is not "None" and parses
RECURSIVE VoidTimesMins(_)
VoidTimesMins(rows) ==
    IF rows = <<>> THEN <<>>
    ELSE LET t == parse_time_to_minutes(Head(rows).time)
         IN  IF Head(rows).time # StrNone /\ t.ok
             THEN <<t.v>> \o VoidTimesMins(Tail(rows))
             ELSE VoidTimesMins(Tail(rows))

\* the interval main computes from sorted[i] to sorted[(i + 1) % n]
MutIntervalEqualIsZero(sorted, i) ==
    LET current == sorted[i]
        next_time == sorted[(i % Len(sorted)) + 1]
    IN  IF next_time >= current THEN next_time - current
        ELSE (1440 - current) + next_time

Interval(sorted, i) ==
    LET current == sorted[i]
        next_time == sorted[(i % Len(sorted)) + 1]
    IN  IF next_time > current THEN next_time - current
        ELSE (1440 - current) + next_time

HasLargeInterval(rows) ==
    LET void_times_mins == VoidTimesMins(rows)
    IN  /\ Len(void_times_mins) > 1
        /\ LET sorted == SortSeq(void_times_mins, LAMBDA a, b : a < b)
           IN  \E i \in 1..Len(sorted) : Interval(sorted, i) > 360

NoReport ==
    [total_intake |-> 0, total_output |-> 0, nocturnal_output |-> 0,
     max_voided_volume |-> NaN, nocturnal_urinations |-> 0,
     found_4hr_intake |-> FALSE, num_leaks |-> 0,
     proper_urine_output10 |-> 0, below_proper_output |-> FALSE,
     has_large_interval |-> FALSE]

NoCall ==
    [total |-> 0, nocturnal |-> 0, max |-> NaN, count |-> 0, age |-> 0]

(***************************************************************************)
(* One day's form.  The table editor and the Analyze button sit inside the *)
(* form: the browser keeps the user's edits of the table and sends them    *)
(* only with the button, so an edit and the analysis of the edited table   *)
(* are one run of the script.  The age, the body weight, the bed time and  *)
(* the uploader are outside the form: changing one of them reruns the      *)
(* script with submit_button false, and that run shows no results.         *)
(***************************************************************************)
Cleared ==
    /\ pc' = "editing"
    /\ call' = NoCall
    /\ metrics' = NoMetrics
    /\ band' = "none"
    /\ report' = NoReport

Init ==
    /\ log = DemoLog
    /\ data = DemoLog
    /\ user_age = 0
    /\ bed_time = T2200
    /\ body_weight = 700
    /\ pc = "editing"
    /\ call = NoCall
    /\ metrics = NoMetrics
    /\ band = "none"
    /\ report = NoReport
    /\ time_str = <<>>
    /\ parsed = [state |-> "idle", v |-> 0]
    /\ activity_text = <<>>
    /\ normalized = [state |-> "idle", v |-> ""]
    /\ ocr_text = <<>>

\* rows the user types into the table (times come from the slot list;
\* the number columns take any number)
UserRows ==
    {DemoLog[i] : i \in 1..Len(DemoLog)}
        \cup {Row("Nighttime Void", T0200, 0, 0 - 50, "N"),
              Row("Daytime Void", T1200, 0, 39850, "N")}

\* rows extract_table_from_image produces
OcrRows == {PlaceholderRow, Row("Daytime Void", T1875, 250, 200, "N")}

AgeChoices == {0, 50}

BedTimeChoices == {T2200, T0200}

WeightChoices == {700, 250}

\* the tables one edit of the editor (num_rows = "dynamic") makes of rows
AddRow(rows) ==
    IF Len(rows) < MaxRows THEN {Append(rows, r) : r \in UserRows} ELSE {}

DeleteRow(rows) ==
    {SubSeq(rows, 1, i - 1) \o SubSeq(rows, i + 1, Len(rows)) :
         i \in 1..Len(rows)}

\* the frames an image that is read gives: one row per OCR line
ExtractedData == UNION {[1..n -> OcrRows] : n \in 1..MaxOcrLines}

\* a change of the uploader reruns the script.  extracted_data is None at
\* first; an image that is read gives the frame of the form; when the
\* extraction raises (the except shows the error) or the file is taken
\* away, extracted_data stays None and the frame is the demo table.  The
\* editor has no key: built from the same frame as in the run before it
\* keeps the user's edits, built from another frame it starts from that
\* frame.
UploadImage ==
    /\ \E frame \in ExtractedData \cup {DemoLog} :
           /\ data' = frame
           /\ log' = IF frame = data THEN log ELSE frame
    /\ Cleared
    /\ UNCHANGED <<user_age, bed_time, body_weight, time_str, parsed, text_vars>>

SetAge ==
    /\ \E a \in AgeChoices : user_age' = a
    /\ Cleared
    /\ UNCHANGED <<log, data, bed_time, body_weight, time_str, parsed, text_vars>>

SetBedTime ==
    /\ \E b \in BedTimeChoices : bed_time' = b
    /\ Cleared
    /\ UNCHANGED <<log, data, user_age, body_weight, time_str, parsed, text_vars>>

SetBodyWeight ==
    /\ \E w \in WeightChoices : body_weight' = w
    /\ Cleared
    /\ UNCHANGED <<log, data, user_age, bed_time, time_str, parsed, text_vars>>

\* if submit_button: everything main computes and shows, for the table the
\* form sent
Analyze(edited_data) ==
    /\ log' = edited_data
    /\ LET total_output == TotalOutput(edited_data)
           nocturnal_output == NocturnalOutput(edited_data)
           max_voided_volume == MaxVoidedVolume(edited_data)
           nocturnal_urinations == NocturnalUrinations(edited_data)
           m == calculate_metrics(total_output, nocturnal_output,
                                  max_voided_volume, nocturnal_urinations,
                                  user_age)
       IN  /\ call' = [total |-> total_output, nocturnal |-> nocturnal_output,
                       max |-> max_voided_volume,
                       count |-> nocturnal_urinations, age |-> user_age]
           /\ metrics' = m
           /\ band' = IF m.raised THEN "none" ELSE NbciBand(m.nbci)
           /\ report' =
                  IF m.raised THEN NoReport
                  ELSE [total_intake |-> TotalIntake(edited_data),
                        total_output |-> total_output,
                        nocturnal_output |-> nocturnal_output,
                        max_voided_volume |-> max_voided_volume,
                        nocturnal_urinations |-> nocturnal_urinations,
                        found_4hr_intake |->
                            Found4hrIntake(edited_data, bed_time,
                                           m.nocturnal_polyuria_flag),
                        num_leaks |-> NumLeaks(edited_data),
                        proper_urine_output10 |->
                            ProperUrineOutput10(body_weight),
                        below_proper_output |->
                            BelowProperOutput(total_output, body_weight),
                        has_large_interval |-> HasLargeInterval(edited_data)]
    /\ pc' = "analyzed"
    /\ UNCHANGED <<data, user_age, bed_time, body_weight, time_str, parsed,
                   text_vars>>

\* the Analyze button, pressed on the table as it is, after adding a row or
\* after deleting one (a longer edit gives a table that a few presses give
\* as well)
SubmitForm ==
    \E t \in {log} \cup AddRow(log) \cup DeleteRow(log) : Analyze(t)

Next ==
    \/ UploadImage
    \/ SetAge
    \/ SetBedTime
    \/ SetBodyWeight
    \/ SubmitForm

Spec == Init /\ [][Next]_vars

(***************************************************************************)
(* The void-interval runs: the user empties the table and enters rows that *)
(* differ in their time only.                                              *)
(***************************************************************************)
TimedRows ==
    {Row("Daytime Void", t, 0, 100, "N") :
         t \in {T0000, T0200, T0600, T1200, T1800}}

ClearTable(rows) == IF rows # <<>> THEN {<<>>} ELSE {}

AddTimedRow(rows) ==
    IF Len(rows) < MaxTimes THEN {Append(rows, r) : r \in TimedRows} ELSE {}

SubmitTimes ==
    \E t \in {log} \cup ClearTable(log) \cup AddTimedRow(log) : Analyze(t)

\* rows without a readable time come from an upload only
NextInterval == SubmitTimes \/ UploadImage

SpecInterval == Init /\ [][NextInterval]_vars

(***************************************************************************)
(* Direct calls of calculate_metrics, followed by main's NBCI banding.     *)
(***************************************************************************)
TotalVols == {0 - 100, 0, 100}

NocturnalVols == {0 - 50, 0, 20, 21, 33, 34, 170, 300, 870}

MaxVols == {NaN, Num(0 - 50), Num(0), Num(100), Num(300)}

\* nine night voids with 870 over 100: 9 - (8.7 - 1) is one of the
\* differences a double does not hold exactly
NightCounts == 0..MaxCount \cup {9}

InitMetrics ==
    /\ call \in [total : TotalVols, nocturnal : NocturnalVols, max : MaxVols,
                 count : NightCounts, age : 0..MaxAge]
    /\ metrics = NoMetrics
    /\ band = "none"
    /\ pc = "editing"
    /\ report = NoReport
    /\ log = <<>>
    /\ data = <<>>
    /\ user_age = 0
    /\ bed_time = T2200
    /\ body_weight = 700
    /\ time_str = <<>>
    /\ parsed = [state |-> "idle", v |-> 0]
    /\ activity_text = <<>>
    /\ normalized = [state |-> "idle", v |-> ""]
    /\ ocr_text = <<>>

MetricsCall ==
    /\ pc = "editing"
    /\ LET m == calculate_metrics(call.total, call.nocturnal, call.max,
                                  call.count, call.age)
       IN  /\ metrics' = m
           /\ band' = IF m.raised THEN "none" ELSE NbciBand(m.nbci)
    /\ pc' = "analyzed"
    /\ UNCHANGED <<log, data, user_age, bed_time, body_weight, call, report,
                   time_str, parsed, text_vars>>

NextMetrics == MetricsCall

SpecMetrics == InitMetrics /\ [][NextMetrics]_vars

(***************************************************************************)
(* Direct calls of parse_time_to_minutes on arbitrary short strings.       *)
(***************************************************************************)
ParseChars == {"0", "1", "2", "4", "9", ":", "-", "_", "\f", ""}

StringsUpTo(n) == UNION {[1..k -> ParseChars] : k \in 0..n}

InitParse ==
    /\ time_str \in StringsUpTo(MaxLen) \cup {StrNone}
    /\ parsed = [state |-> "idle", v |-> 0]
    /\ log = <<>>
    /\ data = <<>>
    /\ user_age = 0
    /\ bed_time = T2200
    /\ body_weight = 700
    /\ pc = "editing"
    /\ call = NoCall
    /\ metrics = NoMetrics
    /\ band = "none"
    /\ report = NoReport
    /\ activity_text = <<>>
    /\ normalized = [state |-> "idle", v |-> ""]
    /\ ocr_text = <<>>

ParseCall ==
    /\ parsed.state = "idle"
    /\ LET r == parse_time_to_minutes(time_str)
       IN  parsed' = IF r.ok THEN [state |-> "returned", v |-> r.v]
                     ELSE [state |-> "ValueError", v |-> 0]
    /\ UNCHANGED <<log, data, user_age, bed_time, body_weight, pc, call, metrics,
                   band, report, time_str, text_vars>>

NextParse == ParseCall

SpecParse == InitParse /\ [][NextParse]_vars

(***************************************************************************)
(* normalize_activity.                                                     *)
(***************************************************************************)
UpperCase ==
    <<"A", "B", "C", "D", "E", "F", "G", "H", "I", "J", "K", "L", "M", "N",
      "O", "P", "Q", "R", "S", "T", "U", "V", "W", "X", "Y", "Z">>

LowerCase ==
    <<"a", "b", "c", "d", "e", "f", "g", "h", "i", "j", "k", "l", "m", "n",
      "o", "p", "q", "r", "s", "t", "u", "v", "w", "x", "y", "z">>

\* str.lower(), one character
Lower(c) ==
    IF \E i \in 1..26 : UpperCase[i] = c
    THEN LowerCase[CHOOSE i \in 1..26 : UpperCase[i] = c]
    ELSE c

LowerStr(s) == [i \in 1..Len(s) |-> Lower(s[i])]

\* needle in hay
Contains(hay, needle) ==
    \E k \in 0..(Len(hay) - Len(needle)) :
        \A j \in 1..Len(needle) : hay[k + j] = needle[j]

KeyFirstMorningVoid ==
    <<"F", "i", "r", "s", "t", " ", "M", "o", "r", "n", "i", "n", "g", " ",
      "V", "o", "i", "d">>

KeyDaytimeVoid ==
    <<"D", "a", "y", "t", "i", "m", "e", " ", "V", "o", "i", "d">>

KeyBedtimeVoid ==
    <<"B", "e", "d", "t", "i", "m", "e", " ", "V", "o", "i", "d">>

KeyNighttimeVoid ==
    <<"N", "i", "g", "h", "t", "t", "i", "m", "e", " ", "V", "o", "i", "d">>

\* the dict, in its insertion order
ACTIVITY_MAPPING ==
    << [key |-> KeyFirstMorningVoid, value |-> "First Morning Void"],
       [key |-> KeyDaytimeVoid, value |-> "Daytime Void"],
       [key |-> KeyBedtimeVoid, value |-> "Bedtime Void"],
       [key |-> KeyNighttimeVoid, value |-> "Nighttime Void"] >>

\* for key, value in ACTIVITY_MAPPING.items():
\*     if key.lower() in activity_text.lower(): return value
\* return "Unknown Activity"
MutNormalizeCaseSensitive(text) ==
    LET hits == {i \in 1..Len(ACTIVITY_MAPPING) :
                     Contains(text, ACTIVITY_MAPPING[i].key)}
    IN  IF hits = {} THEN "Unknown Activity"
        ELSE ACTIVITY_MAPPING[CHOOSE i \in hits : \A j \in hits : i <= j].value

normalize_activity(text) ==
    LET hits == {i \in 1..Len(ACTIVITY_MAPPING) :
                     Contains(LowerStr(text), LowerStr(ACTIVITY_MAPPING[i].key))}
    IN  IF hits = {} THEN "Unknown Activity"
        ELSE ACTIVITY_MAPPING[CHOOSE i \in hits : \A j \in hits : i <= j].value

(***************************************************************************)
(* Direct calls of normalize_activity on texts made of a few fragments.    *)
(***************************************************************************)
FragDaytimeLower ==
    <<"d", "a", "y", "t", "i", "m", "e", " ", "v", "o", "i", "d">>

FragBedtimeUpper ==
    <<"B", "E", "D", "T", "I", "M", "E", " ", "V", "O", "I", "D">>

FragDay == <<"D", "a", "y">>

FragTimeVoid ==
    <<"t", "i", "m", "e", " ", "V", "o", "i", "d">>

TextFragments ==
    {KeyFirstMorningVoid, FragDaytimeLower, FragBedtimeUpper, KeyNighttimeVoid,
     FragDay, FragTimeVoid, <<" ">>}

RECURSIVE Concat(_)
Concat(parts) == IF parts = <<>> THEN <<>> ELSE Head(parts) \o Concat(Tail(parts))

InitClassify ==
    /\ activity_text \in
           {Concat(parts) : parts \in UNION {[1..k -> TextFragments] : k \in 0..MaxFrags}}
    /\ normalized = [state |-> "idle", v |-> ""]
    /\ ocr_text = <<>>
    /\ time_str = <<>>
    /\ parsed = [state |-> "idle", v |-> 0]
    /\ log = <<>>
    /\ data = <<>>
    /\ user_age = 0
    /\ bed_time = T2200
    /\ body_weight = 700
    /\ pc = "editing"
    /\ call = NoCall
    /\ metrics = NoMetrics
    /\ band = "none"
    /\ report = NoReport

ClassifyCall ==
    /\ normalized.state = "idle"
    /\ normalized' = [state |-> "returned", v |-> normalize_activity(activity_text)]
    /\ UNCHANGED <<log, data, user_age, bed_time, body_weight, pc, call, metrics,
                   band, report, time_str, parsed, activity_text, ocr_text>>

NextClassify == ClassifyCall

SpecClassify == InitClassify /\ [][NextClassify]_vars

(***************************************************************************)
(* extract_table_from_image, from the text pytesseract returned.           *)
(***************************************************************************)
\* str.split("\n")
RECURSIVE SplitLines(_)
SplitLines(s) ==
    IF \A i \in 1..Len(s) : s[i] # "\n" THEN <<s>>
    ELSE LET k == CHOOSE i \in 1..Len(s) :
                      s[i] = "\n" /\ \A j \in 1..(i - 1) : s[j] # "\n"
         IN  <<SubSeq(s, 1, k - 1)>> \o SplitLines(SubSeq(s, k + 1, Len(s)))

\* the last index of the longest run of white space (of digits) that starts
\* at i; i - 1 when there is none
SpaceRunEnd(s, i) ==
    CHOOSE e \in (i - 1)..Len(s) :
        /\ \A k \in i..e : IsSpace(s[k])
        /\ e = Len(s) \/ ~IsSpace(s[e + 1])

DigitRunEnd(s, i) ==
    CHOOSE e \in (i - 1)..Len(s) :
        /\ \A k \in i..e : IsDigit(s[k])
        /\ e = Len(s) \/ ~IsDigit(s[e + 1])

\* (\d{2}:\d{2})\s+(\d+)\s+(\d+)\s+([YN])$ matched from index p: the ends
\* of the runs, or ok = FALSE.  White space, digits and Y/N are disjoint, so
\* every run the pattern takes is the longest one.  $ is the end of the row
\* or the place before a newline that ends it.
TailMatch(s, p) ==
    LET a == SpaceRunEnd(s, p + 5)
        b == DigitRunEnd(s, a + 1)
        c == SpaceRunEnd(s, b + 1)
        d == DigitRunEnd(s, c + 1)
        f == SpaceRunEnd(s, d + 1)
    IN  [ok |-> /\ p + 4 <= Len(s)
                /\ IsDigit(s[p]) /\ IsDigit(s[p + 1]) /\ s[p + 2] = ":"
                /\ IsDigit(s[p + 3]) /\ IsDigit(s[p + 4])
                /\ a >= p + 5
                /\ b >= a + 1
                /\ c >= b + 1
                /\ d >= c + 1
                /\ f >= d + 1
                /\ f + 1 <= Len(s)
                /\ s[f + 1] \in {"Y", "N"}
                /\ \/ f + 1 = Len(s)
                   \/ f + 2 = Len(s) /\ s[Len(s)] = "\n",
         a |-> a, b |-> b, c |-> c, d |-> d, f |-> f]

\* re.match(pattern, row): the lazy first group takes the shortest prefix,
\* free of newlines, after which the rest of the pattern matches to the end
\* of the row
RowMatch(row) ==
    LET starts == {p \in 1..(Len(row) - 4) :
                      /\ \A k \in 1..(p - 1) : row[k] # "\n"
                      /\ TailMatch(row, p).ok}
    IN  IF starts = {} THEN [ok |-> FALSE]
        ELSE LET p == CHOOSE q \in starts : \A r \in starts : q <= r
                 m == TailMatch(row, p)
             IN  [ok |-> TRUE,
                  activity |-> SubSeq(row, 1, p - 1),
                  time_val |-> SubSeq(row, p, p + 4),
                  intake |-> SubSeq(row, m.a + 1, m.b),
                  output |-> SubSeq(row, m.c + 1, m.d),
                  leak |-> row[m.f + 1]]

\* the list appended for one row of the text
StructuredRow(row) ==
    LET m == RowMatch(row)
    IN  IF m.ok
        THEN Row(normalize_activity(Strip(m.activity)), Strip(m.time_val),
                 PyInt(m.intake).v, PyInt(m.output).v, m.leak)
        ELSE PlaceholderRow

\* rows = extracted_text.strip().split("\n"); one list per row
MutExtractDropping(extracted_text) ==
    LET rows == SplitLines(Strip(extracted_text))
    IN  SelectSeq([i \in 1..Len(rows) |-> StructuredRow(rows[i])],
                  LAMBDA r : r # PlaceholderRow)

extract_table_from_image(extracted_text) ==
    LET rows == SplitLines(Strip(extracted_text))
    IN  [i \in 1..Len(rows) |-> StructuredRow(rows[i])]

(***************************************************************************)
(* Uploads of images whose text is a few lines joined by newlines.         *)
(***************************************************************************)
LineDaytime ==
    <<"D", "a", "y", "t", "i", "m", "e", " ", "V", "o", "i", "d", " ", "1",
      "8", ":", "7", "5", " ", "2", "5", "0", " ", "2", "0", "0", " ", "N">>

LineNighttimeLower ==
    <<"n", "i", "g", "h", "t", "t", "i", "m", "e", " ", "v", "o", "i", "d",
      " ", "0", "2", ":", "0", "0", " ", "0", " ", "1", "5", "0", " ", "Y">>

LineNoLeak ==
    <<"F", "i", "r", "s", "t", " ", "M", "o", "r", "n", "i", "n", "g", " ",
      "V", "o", "i", "d", " ", "0", "6", ":", "0", "0", " ", "0", " ", "1",
      "5", "0">>

LineBedtimeSpaces ==
    <<"B", "e", "d", "t", "i", "m", "e", " ", "V", "o", "i", "d", " ", "2",
      "2", ":", "0", "0", " ", " ", "2", "0", "0", "	", "1", "0", "0", " ",
      "N", " ">>

LineNoActivity ==
    <<"0", "8", ":", "0", "0", " ", "2", "5", "0", " ", "2", "0", "0", " ",
      "N">>

LineShortHour ==
    <<"x", " ", "6", ":", "0", "0", " ", "1", "0", " ", "2", "0", " ", "Y">>

LineBlank == <<>>

\* the page separator pytesseract puts at the end of its text
LinePageEnd == <<"\f">>

\* a row of a text with \r\n line ends
LineCarriageReturn ==
    <<"B", "e", "d", "t", "i", "m", "e", " ", "V", "o", "i", "d", " ", "2",
      "2", ":", "0", "0", " ", "2", "0", "0", "\r", "1", "0", "0", " ", "N",
      "\r">>

OcrLines ==
    {LineDaytime, LineNighttimeLower, LineNoLeak, LineBedtimeSpaces,
     LineNoActivity, LineShortHour, LineBlank, LinePageEnd,
     LineCarriageReturn}

\* "\n".join(lines)
RECURSIVE JoinLines(_)
JoinLines(lines) ==
    IF Len(lines) = 1 THEN lines[1]
    ELSE lines[1] \o <<"\n">> \o JoinLines(Tail(lines))

\* a text of 1..MaxLines lines
OcrTexts ==
    {JoinLines(lines) : lines \in UNION {[1..k -> OcrLines] : k \in 1..MaxLines}}

InitOcr ==
    /\ ocr_text \in OcrTexts
    /\ log = DemoLog
    /\ data = DemoLog
    /\ pc = "editing"
    /\ activity_text = <<>>
    /\ normalized = [state |-> "idle", v |-> ""]
    /\ time_str = <<>>
    /\ parsed = [state |-> "idle", v |-> 0]
    /\ user_age = 0
    /\ bed_time = T2200
    /\ body_weight = 700
    /\ call = NoCall
    /\ metrics = NoMetrics
    /\ band = "none"
    /\ report = NoReport

\* the upload: the extracted table replaces the demo table of the form
ExtractTable ==
    /\ pc = "editing"
    /\ log = DemoLog
    /\ log' = extract_table_from_image(ocr_text)
    /\ data' = log'
    /\ pc' = "uploaded"
    /\ UNCHANGED <<user_age, bed_time, body_weight, call, metrics, band,
                   report, time_str, parsed, text_vars>>

NextOcr == ExtractTable

SpecOcr == InitOcr /\ [][NextOcr]_vars

(***************************************************************************)
(* The properties checked.                                                 *)
(***************************************************************************)
Analyzed == pc = "analyzed" /\ ~metrics.raised

\* the specification's to_minutes: exactly two colon-separated runs of
\* digits, hour in 0..23, minute in 0..59
ToMinutes(s) ==
    LET colons == {i \in 1..Len(s) : s[i] = ":"}
    IN  IF Cardinality(colons) # 1 THEN ParseFailed
        ELSE LET k == CHOOSE i \in colons : TRUE
                 hh == SubSeq(s, 1, k - 1)
                 mm == SubSeq(s, k + 1, Len(s))
             IN  IF \/ hh = <<>>
                    \/ mm = <<>>
                    \/ \E i \in 1..Len(s) : i # k /\ ~IsDigit(s[i])
                 THEN ParseFailed
                 ELSE IF DigitsValue(hh) > 23 \/ DigitsValue(mm) > 59
                 THEN ParseFailed
                 ELSE [ok |-> TRUE, v |-> 60 * DigitsValue(hh) + DigitsValue(mm)]

\* t lies in the circular window of 240 minutes that ends just before bed
InBedWindow(t, bed) ==
    LET cutoff == (bed - 240) % 1440
    IN  IF cutoff < bed THEN cutoff <= t /\ t < bed
        ELSE t >= cutoff \/ t < bed

\* C1: the 4-hour-pre-bed-intake flag is true iff nocturnal_polyuria_flag is
\* true and some entry has intake_ml > 0 and a parseable time inside the
\* circular window [bed_time - 240, bed_time); entries with intake 0 or an
\* unparseable time never set it.
C1_PreBedIntake ==
    Analyzed =>
        (report.found_4hr_intake <=>
            /\ metrics.nocturnal_polyuria_flag
            /\ \E i \in 1..Len(log) :
                   /\ log[i].intake > 0
                   /\ ToMinutes(log[i].time).ok
                   /\ InBedWindow(ToMinutes(log[i].time).v,
                                  ToMinutes(bed_time).v))

\* the long-interval rule as the claim states it: the parseable times,
\* sorted; next - current for each non-last one, first + 1440 - last for the
\* last one
ClaimLongInterval(rows) ==
    LET ts == SortSeq(VoidTimesMins(rows), LAMBDA a, b : a < b)
        n == Len(ts)
    IN  /\ n >= 2
        /\ \/ \E i \in 1..(n - 1) : ts[i + 1] - ts[i] > 360
           \/ ts[1] + 1440 - ts[n] > 360

\* C2: the long-interval flag is true iff the log has at least 2 parseable
\* times and some circular successive difference of the sorted times exceeds
\* 360 minutes, two equal times being 0 minutes apart.
C2_LongInterval ==
    Analyzed => (report.has_large_interval <=> ClaimLongInterval(log))

\* C3: nocturnal_polyuria_flag = (npi > 20) for 40 <= age <= 65 and
\* (npi > 33) otherwise; npi = 21 sets it at ages 40 and 65 and not at 39 and
\* 66; npi = 20 (resp. 33) does not set it.
C3_AgeBandedFlag ==
    Analyzed =>
        /\ call.age \in 40..65 =>
               (metrics.nocturnal_polyuria_flag <=>
                    FloatGt(metrics.npi, FloatOfInt(20)))
        /\ call.age \notin 40..65 =>
               (metrics.nocturnal_polyuria_flag <=>
                    FloatGt(metrics.npi, FloatOfInt(33)))
        /\ (call.total = 100 /\ call.nocturnal = 21) =>
               (metrics.nocturnal_polyuria_flag <=> call.age \in 40..65)
        /\ (call.total = 100 /\ call.nocturnal = 20) =>
               ~metrics.nocturnal_polyuria_flag
        /\ (call.total = 100 /\ call.nocturnal = 33 /\ call.age \notin 40..65)
               => ~metrics.nocturnal_polyuria_flag

C3_Witness ==
    /\ Analyzed
    /\ call.age = 40
    /\ call.total = 100
    /\ call.nocturnal = 21
    /\ metrics.nocturnal_polyuria_flag

\* C4: the metrics computation raises no error; total_output <= 0 gives
\* npi = 0, max_output <= 0 gives ni = 0 and pnv = 0, and the empty log gives
\* npi = ni = pnv = 0.
C4_GuardedDivision ==
    pc = "analyzed" =>
        /\ ~metrics.raised
        /\ call.total <= 0 => metrics.npi = FloatZero
        /\ (~call.max.nan /\ call.max.v <= 0) =>
               (metrics.ni = FloatZero /\ metrics.pnv = FloatZero)
        /\ log = <<>> =>
               /\ metrics.npi = FloatZero
               /\ metrics.ni = FloatZero
               /\ metrics.pnv = FloatZero

C4_Witness ==
    /\ pc = "analyzed"
    /\ log # <<>>
    /\ call.total <= 0
    /\ call.nocturnal # 0
    /\ call.max.v <= 0

\* C5: parse_time_to_minutes either returns 60 * hour + minute in 0..1439 or
\* fails, and it fails on every input that is not two colon-separated
\* integers with hour in 0..23 and minute in 0..59.
C5_ParseRange ==
    /\ parsed.state = "returned" =>
           (parsed.v \in 0..1439 /\ ToMinutes(time_str).ok
                /\ parsed.v = ToMinutes(time_str).v)
    /\ (parsed.state # "idle" /\ ~ToMinutes(time_str).ok) =>
           parsed.state = "ValueError"

\* C6: every nbci selects exactly one band: severe iff nbci > 2, diminished
\* iff 1.3 < nbci <= 2, suspected iff 0 < nbci <= 1.3, no abnormality iff
\* nbci <= 0.
C6_BandPartition ==
    Analyzed =>
        LET nbci == metrics.nbci
        IN  /\ band \in {"severe nocturia",
                         "diminished nocturnal bladder capacity",
                         "nocturia suspected", "no abnormality"}
            /\ band = "severe nocturia" <=> FloatGt(nbci, FloatOfInt(2))
            /\ band = "diminished nocturnal bladder capacity" <=>
                   (FloatGt(nbci, Float13) /\ FloatLe(nbci, FloatOfInt(2)))
            /\ band = "nocturia suspected" <=>
                   (FloatGt(nbci, FloatZero) /\ FloatLe(nbci, Float13))
            /\ band = "no abnormality" <=> FloatLe(nbci, FloatZero)

\* two night voids and ni = 1.7: nbci comes out as the double 1.3 itself,
\* which is not above 1.3
C6_Witness ==
    /\ Analyzed
    /\ call.count = 2
    /\ metrics.nbci = Float13
    /\ FloatGt(metrics.pnv, FloatZero)
    /\ band = "nocturia suspected"

NonNegativeLog ==
    \A i \in 1..Len(log) : log[i].intake >= 0 /\ log[i].output >= 0

\* C7: when no volume of the log is negative, 0 <= nocturnal_output <=
\* total_output and 0 <= npi <= 100.
C7_NocturnalWithinTotal ==
    (Analyzed /\ NonNegativeLog) =>
        /\ 0 <= report.nocturnal_output
        /\ report.nocturnal_output <= report.total_output
        /\ FloatLe(FloatZero, metrics.npi)
        /\ FloatLe(metrics.npi, FloatOfInt(100))

C7_Witness ==
    /\ Analyzed
    /\ NonNegativeLog
    /\ 0 < report.nocturnal_output
    /\ report.nocturnal_output < report.total_output
    /\ \E i \in 1..Len(log) : log[i].activity = "First Morning Void"

\* C8: pnv = ni - 1 when ni > 1 and 0 otherwise, so pnv >= 0; and
\* nbci = night_void_count - pnv, not clamped.
C8_PnvAndNbci ==
    Analyzed =>
        LET ni == metrics.ni
            pnv == metrics.pnv
            nbci == metrics.nbci
        IN  /\ FloatGt(ni, FloatOfInt(1)) =>
                   pnv = FloatMinus(ni, FloatOfInt(1))
            /\ FloatLe(ni, FloatOfInt(1)) => pnv = FloatZero
            /\ FloatLe(FloatZero, pnv)
            /\ nbci = FloatMinus(FloatOfInt(call.count), pnv)

C8_Witness ==
    /\ Analyzed
    /\ FloatGt(metrics.ni, FloatOfInt(1))
    /\ FloatGt(metrics.pnv, FloatZero)
    /\ FloatGt(FloatZero, metrics.nbci)

RECURSIVE SumOutputAt(_, _)
SumOutputAt(rows, idx) ==
    IF idx = {} THEN 0
    ELSE LET i == CHOOSE j \in idx : TRUE
         IN  rows[i].output + SumOutputAt(rows, idx \ {i})

\* C9: nocturnal_output is the sum of output_ml over the Nighttime Void and
\* First Morning Void entries and night_void_count is the number of Nighttime
\* Void entries; one more First Morning Void entry adds its output_ml to the
\* first and nothing to the second, and an entry of any other category adds
\* to neither.
C9_ActivityAggregation ==
    Analyzed =>
        /\ report.nocturnal_output =
               SumOutputAt(log, {i \in 1..Len(log) :
                   log[i].activity \in {"Nighttime Void", "First Morning Void"}})
        /\ report.nocturnal_urinations =
               Cardinality({i \in 1..Len(log) :
                   log[i].activity = "Nighttime Void"})
        /\ \A r \in UserRows \cup OcrRows :
               LET more == Append(log, r)
               IN  /\ r.activity = "First Morning Void" =>
                       /\ NocturnalOutput(more) =
                              report.nocturnal_output + r.output
                       /\ NocturnalUrinations(more) =
                              report.nocturnal_urinations
                   /\ r.activity \in {"Daytime Void", "Bedtime Void",
                                      "Unknown Activity"} =>
                       /\ NocturnalOutput(more) = report.nocturnal_output
                       /\ NocturnalUrinations(more) =
                              report.nocturnal_urinations

C9_Witness ==
    /\ Analyzed
    /\ \E i \in 1..Len(log) : log[i].activity = "First Morning Void"
    /\ \E i \in 1..Len(log) : log[i].activity = "Nighttime Void"
    /\ \E i \in 1..Len(log) : log[i].activity = "Bedtime Void"
    /\ report.nocturnal_urinations = 1
    /\ report.nocturnal_output = 300

\* C10: for the empty log max_output is 0, not NaN, so that
\* diminished_bladder_capacity_flag is true and ni is 0.
C10_EmptyLogMax ==
    (pc = "analyzed" /\ log = <<>>) =>
        /\ ~metrics.raised
        /\ ~report.max_voided_volume.nan
        /\ report.max_voided_volume.v = 0
        /\ metrics.diminished_bladder_capacity_flag
        /\ metrics.ni = FloatZero

\* a phrase occurs in a text, letter case ignored
Occurs(phrase, text) ==
    \E k \in 0..(Len(text) - Len(phrase)) :
        \A j \in 1..Len(phrase) :
            \/ text[k + j] = phrase[j]
            \/ \E u \in 1..26 :
                   {text[k + j], phrase[j]} = {UpperCase[u], LowerCase[u]}

\* C11: normalize_activity returns the first of First Morning Void, Daytime
\* Void, Bedtime Void, Nighttime Void (in that order) that occurs in the text
\* as a case-insensitive substring, wherever it occurs; Unknown when none
\* occurs; it never fails.
C11_FirstDeclaredPhrase ==
    /\ normalized.state \in {"idle", "returned"}
    /\ normalized.state = "returned" =>
           LET t == activity_text
               r == normalized.v
           IN  /\ r = "First Morning Void" <=> Occurs(KeyFirstMorningVoid, t)
               /\ r = "Daytime Void" <=>
                      (~Occurs(KeyFirstMorningVoid, t) /\ Occurs(KeyDaytimeVoid, t))
               /\ r = "Bedtime Void" <=>
                      /\ ~Occurs(KeyFirstMorningVoid, t)
                      /\ ~Occurs(KeyDaytimeVoid, t)
                      /\ Occurs(KeyBedtimeVoid, t)
               /\ r = "Nighttime Void" <=>
                      /\ ~Occurs(KeyFirstMorningVoid, t)
                      /\ ~Occurs(KeyDaytimeVoid, t)
                      /\ ~Occurs(KeyBedtimeVoid, t)
                      /\ Occurs(KeyNighttimeVoid, t)
               /\ r = "Unknown Activity" <=>
                      \A i \in 1..4 : ~Occurs(ACTIVITY_MAPPING[i].key, t)

\* a text in which a lower-case "daytime void" comes after "Nighttime Void"
\* and wins over it
C11_Witness ==
    /\ normalized.state = "returned"
    /\ normalized.v = "Daytime Void"
    /\ activity_text = KeyNighttimeVoid \o <<" ">> \o FragDaytimeLower

\* the table holds, in order, one row per line of ls: the classified row of
\* a line the pattern matches, the placeholder row of any other line
OneRowPerLine(ls) ==
    /\ Len(log) = Len(ls)
    /\ \A i \in 1..Len(ls) :
           LET m == RowMatch(ls[i])
           IN  IF m.ok
               THEN /\ log[i].activity = normalize_activity(Strip(m.activity))
                    /\ log[i].time = m.time_val
                    /\ log[i].intake = DigitsValue(m.intake)
                    /\ log[i].output = DigitsValue(m.output)
                    /\ log[i].leak = m.leak
               ELSE log[i] = PlaceholderRow

\* the lines of a text as a reader counts them: the newlines and page
\* separators that end the text start no further line
RECURSIVE DropTextEnd(_)
DropTextEnd(s) ==
    IF s # <<>> /\ s[Len(s)] \in {"\n", "\f"}
    THEN DropTextEnd(SubSeq(s, 1, Len(s) - 1))
    ELSE s

TextLines(s) == SplitLines(DropTextEnd(s))

\* C12 as stated: after an upload the table has exactly one row per line of
\* the text of the image, in the same order; a line the row pattern matches
\* gives its classified row, every other line gives the placeholder row.
C12_RowPerLine ==
    pc = "uploaded" => OneRowPerLine(TextLines(ocr_text))

\* C12 amended: after an upload the table has exactly one row per line of
\* the text once the white space (blank lines included) before its first and
\* after its last visible character is removed, in the same order; a line the
\* row pattern matches gives its classified row, every other line gives the
\* placeholder row, none is dropped.
C12_RowPerStrippedLine ==
    pc = "uploaded" => OneRowPerLine(SplitLines(Strip(ocr_text)))

\* a text of three lines, the first blank, the second a row, the third
\* without its leak column: two rows, the second the placeholder
C12_Witness ==
    /\ pc = "uploaded"
    /\ ocr_text = JoinLines(<<LineBlank, LineDaytime, LineNoLeak>>)
    /\ Len(log) = 2
    /\ log[1] = Row("Daytime Void", T1875, 250, 200, "N")
    /\ log[2] = PlaceholderRow

\* C13: the 24-hour polyuria flag is total_output > 40000, a fixed volume
\* whatever the body weight; the weight sets only the proper output,
\* weight * 0.5 * 24, and the flag total_output < proper output.
C13_FixedPolyuriaThreshold ==
    Analyzed =>
        /\ report.total_output = SumOutput(log)
        /\ metrics.total_urine_flag = (SumOutput(log) > 40000)
        /\ report.proper_urine_output10 = 12 * body_weight
        /\ report.below_proper_output =
               (10 * SumOutput(log) < 12 * body_weight)

\* a 25 kg user whose voids add up to 40050 ml: flagged, as a 70 kg user is
C13_Witness ==
    /\ Analyzed
    /\ body_weight = 250
    /\ report.total_output = 40050
    /\ metrics.total_urine_flag
    /\ ~report.below_proper_output

\* C14: the table the form starts with, analysed for age 50, weight 70 kg and
\* bed time 22:00, gives total_output 1150, nocturnal_output 300, max output
\* 300, one night void, the polyuria flag set, ni = 1, pnv = 0, nbci = 1 in
\* the band 'nocturia suspected', no diminished capacity, no 24-hour
\* polyuria, one leak, intake found in the 4 hours before bed, and no
\* interval over 6 hours.
DemoRun ==
    /\ pc = "analyzed"
    /\ log = DemoLog
    /\ user_age = 50
    /\ body_weight = 700
    /\ bed_time = T2200

C14_DemoLog ==
    DemoRun =>
        /\ ~metrics.raised
        /\ report.total_output = 1150
        /\ report.nocturnal_output = 300
        /\ report.max_voided_volume = Num(300)
        /\ report.nocturnal_urinations = 1
        /\ metrics.nocturnal_polyuria_flag
        /\ metrics.ni = FloatOfInt(1)
        /\ metrics.pnv = FloatZero
        /\ metrics.nbci = FloatOfInt(1)
        /\ band = "nocturia suspected"
        /\ ~metrics.diminished_bladder_capacity_flag
        /\ ~metrics.total_urine_flag
        /\ report.num_leaks = 1
        /\ report.found_4hr_intake
        /\ ~report.has_large_interval

C14_Witness ==
    /\ DemoRun
    /\ report.total_output = 1150
    /\ band = "nocturia suspected"

\* C15: for a table with at least one row and no negative output, ni is at
\* most the number of Nighttime Void and First Morning Void rows; hence
\* nbci >= 1 - (number of First Morning Void rows) whenever pnv > 0, nbci >= 0
\* when there is at most one First Morning Void row, and nbci is negative
\* only with two or more of them.
C15_NbciLowerBound ==
    (Analyzed /\ log # <<>> /\ NonNegativeLog) =>
        LET night == Len(WithActivity(log, "Nighttime Void"))
            morning == Len(WithActivity(log, "First Morning Void"))
            ni == metrics.ni
            pnv == metrics.pnv
            nbci == metrics.nbci
        IN  /\ FloatLe(ni, FloatOfInt(night + morning))
            /\ FloatGt(pnv, FloatZero) =>
                   FloatLe(FloatOfInt(1 - morning), nbci)
            /\ morning <= 1 => FloatLe(FloatZero, nbci)
            /\ FloatGt(FloatZero, nbci) => morning >= 2

\* two First Morning Void rows of 150 ml and no night void: ni = 2, pnv = 1,
\* nbci = -1, the bound 1 - 2 met exactly
C15_Witness ==
    /\ Analyzed
    /\ NonNegativeLog
    /\ Len(log) = 2
    /\ Len(WithActivity(log, "First Morning Void")) = 2
    /\ metrics.ni = FloatOfInt(2)
    /\ metrics.pnv = FloatOfInt(1)
    /\ metrics.nbci = FloatOfInt(0 - 1)

\* C16: when the table has two or more parseable times, the long-interval
\* flag is false only if the times are pairwise distinct and at least four;
\* a repeated time, or only two or three times, always raises it.  The four
\* times 00:00, 06:00, 12:00, 18:00, exactly 360 minutes apart, do not.
C16_NoFlagNeedsFourDistinct ==
    Analyzed =>
        LET ts == VoidTimesMins(log)
            n == Len(ts)
        IN  /\ (n >= 2 /\ ~report.has_large_interval) =>
                   /\ n >= 4
                   /\ \A i, j \in 1..n : i # j => ts[i] # ts[j]
            /\ (n = 4 /\ {ts[i] : i \in 1..n} = {0, 360, 720, 1080}) =>
                   ~report.has_large_interval

\* the four times exactly six hours apart, analysed without the flag
C16_Witness ==
    /\ Analyzed
    /\ Len(VoidTimesMins(log)) = 4
    /\ {VoidTimesMins(log)[i] : i \in 1..4} = {0, 360, 720, 1080}
    /\ ~report.has_large_interval

====
